---- MODULE Spec2Model ----
EXTENDS Integers, Sequences, FiniteSets, TLC

(***************************************************************************)
(* Model of src/app.py: the process-wide CACHE / PREV dictionaries, the    *)
(* Basic-auth gate, the capture (fetch_nginx_T) with truncation and        *)
(* exit-code coercion, and the HTTP handlers /fetch, /diff, /raw,          *)
(* /download and /.  Python's None is the empty sequence << >>, a present  *)
(* value v is << v >>; texts are sequences of one-character strings.       *)
(***************************************************************************)

\* ---------------------------------------------------------------- bounds
MAX_CHARS == 1
MaxOutLen == 2
MaxAttempts == 3
\* Capture attempts of the fetching client that runs beside a reading one
MixAttempts == 2
\* Distinct readings of the wall clock
MaxClock == 2

Min(x, y) == IF x < y THEN x ELSE y
Max(x, y) == IF x > y THEN x ELSE y

NoneV == << >>
Some(v) == << v >>

Chars == {"a"}

\* All strings over Chars of length at most n.
RECURSIVE StringsUpTo(_)
StringsUpTo(n) ==
    IF n = 0 THEN {<< >>}
    ELSE StringsUpTo(n - 1) \cup {s \o << c >> : s \in StringsUpTo(n - 1), c \in Chars}

\* Raw output of `nginx -T` (stdout+stderr) the container may produce.
Outputs == StringsUpTo(MaxOutLen)

\* getattr(res, "exit_code", 0): None (coerced to 0) or a non-zero status.
RawCodes == {NoneV, Some(1)}

\* Messages of the RuntimeError / exec exceptions raised by fetch_nginx_T.
ErrMsgs == {"container not found", "exec error"}

\* "\n\n[TRUNCATED: output exceeded MAX_CHARS]\n"
TruncMarker ==
    << "\n", "\n", "[", "T", "R", "U", "N", "C", "A", "T", "E", "D", ":", " ",
       "o", "u", "t", "p", "u", "t", " ", "e", "x", "c", "e", "e", "d", "e", "d",
       " ", "M", "A", "X", "_", "C", "H", "A", "R", "S", "]", "\n" >>

Prefix(s, n) == IF n >= Len(s) THEN s ELSE SubSeq(s, 1, n)

\* Variant truncating already at len(out) >= MAX_CHARS
TruncateAtCap(out) ==
    IF Len(out) >= MAX_CHARS THEN Prefix(out, MAX_CHARS) \o TruncMarker ELSE out

\* out[:MAX_CHARS] + marker when len(out) > MAX_CHARS
Truncate(out) ==
    IF Len(out) > MAX_CHARS THEN Prefix(out, MAX_CHARS) \o TruncMarker ELSE out

\* int(getattr(res, "exit_code", 0) or 0)
CoerceCode(raw) == IF raw = NoneV THEN 0 ELSE raw[1]

\* ------------------------------------------------------- Basic auth gate
\* Authorization header values a client can send ("none": no header, or one
\* not starting with "Basic ").  "undecodable" stands for
\* a "Basic ..." header whose base64 payload does not decode to "user:pwd".
Headers ==
    {[kind |-> "none"], [kind |-> "undecodable"]}
    \cup {[kind |-> "basic", user |-> u, pwd |-> p] : <<u, p>> \in {<<"u", "p">>, <<"u", "x">>, <<"x", "p">>}}

\* Values of BASIC_AUTH_USER / BASIC_AUTH_PASS after .strip()
CfgUsers == {"", "u"}
CfgPasses == {"", "p"}

\* _check_basic_auth: "ok", or the 401 detail it raises
CheckBasicAuth(user, pass, hdr) ==
    IF ~(user # "" /\ pass # "") THEN "ok"
    ELSE IF hdr.kind = "none" THEN "Auth required"
    ELSE IF hdr.kind = "undecodable" THEN "Invalid auth"
    ELSE IF hdr.user # user \/ hdr.pwd # pass THEN "Invalid auth"
    ELSE "ok"

\* ----------------------------------------------------------- splitlines
\* The elements of a finite set of integers in ascending order
SortedSeq(S) == [k \in 1 .. Cardinality(S) |-> CHOOSE p \in S : Cardinality({q \in S : q <= p}) = k]

MaxOf(S) == CHOOSE d \in S : \A e \in S : e <= d

\* Lines of s, given the ascending positions pos of its "\n" characters: the
\* k-th line runs from just after the (k-1)-th "\n" to just before the k-th
\* one (or to the end); a trailing "\n" does not open an empty last line.
SplitAt(s, pos) ==
    LET n == Len(pos) + (IF s # << >> /\ s[Len(s)] # "\n" THEN 1 ELSE 0)
        start(k) == IF k = 1 THEN 1 ELSE pos[k - 1] + 1
        stop(k) == IF k <= Len(pos) THEN pos[k] - 1 ELSE Len(s)
    IN [k \in 1 .. n |-> SubSeq(s, start(k), stop(k))]

\* str.splitlines() over texts whose only line break is "\n"
Splitlines(s) == SplitAt(s, SortedSeq({i \in 1 .. Len(s) : s[i] = "\n"}))

\* ------------------------------------------------ difflib.SequenceMatcher
\* Positions are 0-based as in Python: element i of x is x[i + 1].
\* No isjunk, and sequences shorter than 200 lines never trigger autojunk,
\* so b2j holds every line of b.

\* Length of the run of equal elements ending at a[i], b[j] that starts no
\* earlier than alo, blo (the j2len table of find_longest_match).
RunLen(a, b, i, j, alo, blo) ==
    MaxOf({d \in 0 .. Min(i - alo, j - blo) + 1 :
             \A t \in 0 .. d - 1 : a[i - t + 1] = b[j - t + 1]})

\* First (in the scan order of find_longest_match: i, then j ascending) of a
\* set of run ends
FirstEnd(S) == CHOOSE e \in S : \A g \in S : e[1] < g[1] \/ (e[1] = g[1] /\ e[2] <= g[2])

\* Result <<i, j, k>> from the longest run length best and the run table rt
LongestFrom(alo, blo, rt, best) ==
    IF best = 0 THEN << alo, blo, 0 >>
    ELSE << FirstEnd({e \in DOMAIN rt : rt[e] = best})[1] - best + 1,
            FirstEnd({e \in DOMAIN rt : rt[e] = best})[2] - best + 1, best >>

LongestIn(alo, blo, rt) == LongestFrom(alo, blo, rt, MaxOf({rt[e] : e \in DOMAIN rt} \cup {0}))

\* find_longest_match(alo, ahi, blo, bhi): the first run end (scan order)
\* with the largest run length (updates only on a strictly longer run).
FindLongestMatch(a, b, alo, ahi, blo, bhi) ==
    LongestIn(alo, blo, [e \in (alo .. ahi - 1) \X (blo .. bhi - 1) |->
                            RunLen(a, b, e[1], e[2], alo, blo)])

\* The recursive split of get_matching_blocks around the match m, blocks in
\* ascending order (the order Python's sort of the queue's output produces).
RECURSIVE MB(_, _, _, _, _, _)
MBAround(a, b, alo, ahi, blo, bhi, m) ==
    IF m[3] = 0 THEN << >>
    ELSE (IF alo < m[1] /\ blo < m[2] THEN MB(a, b, alo, m[1], blo, m[2]) ELSE << >>)
         \o << m >>
         \o (IF m[1] + m[3] < ahi /\ m[2] + m[3] < bhi
             THEN MB(a, b, m[1] + m[3], ahi, m[2] + m[3], bhi) ELSE << >>)

MB(a, b, alo, ahi, blo, bhi) ==
    MBAround(a, b, alo, ahi, blo, bhi, FindLongestMatch(a, b, alo, ahi, blo, bhi))

\* Collapse adjacent blocks, as get_matching_blocks does.
RECURSIVE Collapse(_, _)
Collapse(bs, acc) ==
    IF bs = << >> THEN acc
    ELSE IF acc # << >> /\ acc[Len(acc)][1] + acc[Len(acc)][3] = Head(bs)[1]
                        /\ acc[Len(acc)][2] + acc[Len(acc)][3] = Head(bs)[2]
    THEN Collapse(Tail(bs), [acc EXCEPT ![Len(acc)] =
                     << acc[Len(acc)][1], acc[Len(acc)][2], acc[Len(acc)][3] + Head(bs)[3] >>])
    ELSE Collapse(Tail(bs), Append(acc, Head(bs)))

GetMatchingBlocks(a, b) ==
    Collapse(MB(a, b, 0, Len(a), 0, Len(b)), << >>) \o << << Len(a), Len(b), 0 >> >>

\* One step of get_opcodes: the opcodes for block m = <<ai, bj, size>>
\* reached from position i, j
OpcodesOf(i, j, m) ==
    (IF i < m[1] /\ j < m[2] THEN << << "replace", i, m[1], j, m[2] >> >>
     ELSE IF i < m[1] THEN << << "delete", i, m[1], j, m[2] >> >>
     ELSE IF j < m[2] THEN << << "insert", i, m[1], j, m[2] >> >>
     ELSE << >>)
    \o (IF m[3] > 0 THEN << << "equal", m[1], m[1] + m[3], m[2], m[2] + m[3] >> >> ELSE << >>)

\* get_opcodes: <<tag, i1, i2, j1, j2>>
RECURSIVE OpcodesAcc(_, _, _, _)
OpcodesAcc(bs, i, j, acc) ==
    IF bs = << >> THEN acc
    ELSE OpcodesAcc(Tail(bs), Head(bs)[1] + Head(bs)[3], Head(bs)[2] + Head(bs)[3],
                    acc \o OpcodesOf(i, j, Head(bs)))

GetOpcodes(a, b) == OpcodesAcc(GetMatchingBlocks(a, b), 0, 0, << >>)

\* Unified-diff context lines (difflib.unified_diff's default n = 3).
Context == 3

\* get_grouped_opcodes(n): the group-splitting loop
RECURSIVE GroupAcc(_, _, _, _)
GroupAcc(codes, n, group, groups) ==
    IF codes = << >> THEN
        IF group # << >> /\ ~(Len(group) = 1 /\ group[1][1] = "equal")
        THEN Append(groups, group) ELSE groups
    ELSE LET c == Head(codes)
         IN IF c[1] = "equal" /\ c[3] - c[2] > n + n
            THEN GroupAcc(Tail(codes), n,
                          << << c[1], Max(c[2], c[3] - n), c[3], Max(c[4], c[5] - n), c[5] >> >>,
                          Append(groups, Append(group, << c[1], c[2], Min(c[3], c[2] + n),
                                                          c[4], Min(c[5], c[4] + n) >>)))
            ELSE GroupAcc(Tail(codes), n, Append(group, c), groups)

\* get_grouped_opcodes: trim the leading equal opcode to its last n lines
TrimFirst(codes, n) ==
    IF codes[1][1] = "equal"
    THEN [codes EXCEPT ![1] = << codes[1][1], Max(codes[1][2], codes[1][3] - n), codes[1][3],
                                  Max(codes[1][4], codes[1][5] - n), codes[1][5] >>]
    ELSE codes

\* get_grouped_opcodes: trim the trailing equal opcode to its first n lines
TrimLast(codes, n) ==
    LET cl == codes[Len(codes)]
    IN IF cl[1] = "equal"
       THEN [codes EXCEPT ![Len(codes)] = << cl[1], cl[2], Min(cl[3], cl[2] + n),
                                             cl[4], Min(cl[5], cl[4] + n) >>]
       ELSE codes

GroupedFrom(codes, n) ==
    GroupAcc(TrimLast(TrimFirst(IF codes = << >> THEN << << "equal", 0, 1, 0, 1 >> >> ELSE codes,
                                n), n), n, << >>, << >>)

GetGroupedOpcodes(a, b, n) == GroupedFrom(GetOpcodes(a, b), n)

\* _format_range_unified(start, stop)
FormatRangeUnified(start, stop) ==
    IF stop - start = 1 THEN << start + 1 >>
    ELSE IF stop - start = 0 THEN << start, 0 >>
    ELSE << start + 1, stop - start >>

\* Variant listing the added lines before the removed ones
OpcodeLinesAddedFirst(tag, olds, news) ==
    IF tag = "equal" THEN [k \in 1 .. Len(olds) |-> << " ", olds[k] >>]
    ELSE (IF tag \in {"replace", "insert"}
          THEN [k \in 1 .. Len(news) |-> << "+", news[k] >>] ELSE << >>)
         \o (IF tag \in {"replace", "delete"}
             THEN [k \in 1 .. Len(olds) |-> << "-", olds[k] >>] ELSE << >>)

\* Output lines of one opcode, given its old lines olds and new lines news
OpcodeLines(tag, olds, news) ==
    IF tag = "equal" THEN [k \in 1 .. Len(olds) |-> << " ", olds[k] >>]
    ELSE (IF tag \in {"replace", "delete"}
          THEN [k \in 1 .. Len(olds) |-> << "-", olds[k] >>] ELSE << >>)
         \o (IF tag \in {"replace", "insert"}
             THEN [k \in 1 .. Len(news) |-> << "+", news[k] >>] ELSE << >>)

\* Output lines of one group: <<" " | "-" | "+", line>>
RECURSIVE GroupLines(_, _, _)
GroupLines(a, b, group) ==
    IF group = << >> THEN << >>
    ELSE OpcodeLines(Head(group)[1], SubSeq(a, Head(group)[2] + 1, Head(group)[3]),
                     SubSeq(b, Head(group)[4] + 1, Head(group)[5]))
         \o GroupLines(a, b, Tail(group))

RECURSIVE HunksAcc(_, _, _)
HunksAcc(a, b, groups) ==
    IF groups = << >> THEN << >>
    ELSE LET g == Head(groups)
         IN << << "@@", FormatRangeUnified(g[1][2], g[Len(g)][3]),
                        FormatRangeUnified(g[1][4], g[Len(g)][5]) >> >>
            \o GroupLines(a, b, g) \o HunksAcc(a, b, Tail(groups))

UnifiedFrom(a, b, fromfile, tofile, groups) ==
    IF groups = << >> THEN << >>
    ELSE << << "---", fromfile >>, << "+++", tofile >> >> \o HunksAcc(a, b, groups)

\* difflib.unified_diff(a, b, fromfile, tofile, lineterm=""): the list of
\* lines it yields.
UnifiedDiff(a, b, fromfile, tofile) ==
    UnifiedFrom(a, b, fromfile, tofile, GetGroupedOpcodes(a, b, Context))

\* "\n".join(lines) + "\n" as a sequence of tokens (each line one token)
RECURSIVE JoinNl(_)
JoinNl(ls) ==
    IF ls = << >> THEN << >>
    ELSE IF Len(ls) = 1 THEN << Head(ls) >>
    ELSE << Head(ls), "\n" >> \o JoinNl(Tail(ls))

\* unified_diff's fromfile/tofile arguments: f"prev ({ts.isoformat()})" or the
\* default word when ts is None.
FileLabel(side, ts, dflt) ==
    IF ts # NoneV THEN << side, "iso", ts[1] >> ELSE << side, dflt >>

\* Body of the 200 answer of /diff
DiffBody(prev, cache) ==
    JoinNl(UnifiedDiff(Splitlines(prev.text), Splitlines(cache.text),
                       FileLabel("prev", prev.ts, "previous"),
                       FileLabel("curr", cache.ts, "current"))) \o << "\n" >>

NoPrevMsg == "No previous snapshot. Click Fetch at least twice."
NoConfigMsg == "No config cached yet. POST /fetch first."

\* ------------------------------------------------------------- the state
\* FastAPI runs the synchronous handlers in its thread pool, with no lock
\* around CACHE / PREV.  Each worker thread serves one request at a time, and
\* each statement of a handler that reads or writes the dicts (or reads the
\* clock) is one atomic step of that worker; the GIL keeps a single item read
\* or assignment atomic.  _check_basic_auth reads only the configuration, so
\* it is part of a handler's first step.
VARIABLES
    authUser,     \* BASIC_USER
    authPass,     \* BASIC_PASS
    CACHE,        \* the CACHE dict
    PREV,         \* the PREV dict
    pc,           \* position of each worker in the handler it runs ("idle": none)
    loc,          \* locals of the POST /fetch a worker runs
    obs,          \* what a worker's GET read, and the response of its request
    lastAttempt,  \* ghost: outcome of the capture attempt that ended last
    order,        \* ghost: the <<text, ts>> of each snapshot, in recording order
    natt,         \* ghost: number of capture attempts begun
    lastStarted,  \* ghost: the worker whose capture attempt began last
    lastFinished, \* ghost: the worker whose capture attempt ended last
    overlapped    \* ghost: two requests have at some point been in progress at once

vars == << authUser, authPass, CACHE, PREV, pc, loc, obs,
          lastAttempt, order, natt, lastStarted, lastFinished, overlapped >>

\* Worker threads of the server's thread pool
Workers == {"w1", "w2"}

\* Readings datetime.now(timezone.utc) may give: a wall clock, which NTP or
\* an operator may set back, and which may repeat a reading
Clock == 1 .. MaxClock

Endpoints == {"fetch", "diff", "raw", "download", "index"}

\* Locals of fetch: output and exit_code attribute of the exec result, the
\* text and code fetch_nginx_T returns, the stamp read on line 927, str(e);
\* and a ghost flag: the request was already running when some failed
\* POST /fetch returned
NoLocals == [out |-> << >>, rawc |-> NoneV, text |-> << >>, code |-> 0,
             ts |-> NoneV, msg |-> "", stale |-> FALSE]

\* A request's method/path, query (the snapshot id a /diff names) and
\* Authorization header, its status (0 while it runs) and message, and the
\* values its handler read
NoObs == [ep |-> "none", left |-> 0, hdr |-> [kind |-> "none"], status |-> 0, msg |-> "",
          old |-> << >>, new |-> << >>, oldTs |-> NoneV, newTs |-> NoneV,
          text |-> << >>, ts |-> NoneV, ts2 |-> NoneV, err |-> NoneV,
          code |-> NoneV, has |-> FALSE]

Fresh(ep, hdr) == [NoObs EXCEPT !.ep = ep, !.hdr = hdr]

\* Process start with the store empty, under the credentials in users/passes.
InitWith(users, passes) ==
    /\ authUser \in users
    /\ authPass \in passes
    /\ CACHE = [text |-> << >>, ts |-> NoneV, err |-> NoneV, exit_code |-> NoneV]
    /\ PREV = [text |-> << >>, ts |-> NoneV]
    /\ pc = [w \in Workers |-> "idle"]
    /\ loc = [w \in Workers |-> NoLocals]
    /\ obs = [w \in Workers |-> NoObs]
    /\ lastAttempt = "none"
    /\ order = << >>
    /\ natt = 0
    /\ lastStarted = "none"
    /\ lastFinished = "none"
    /\ overlapped = FALSE

\* A deployment with BASIC_AUTH_USER=u and BASIC_AUTH_PASS=p
Init == InitWith({"u"}, {"p"})

\* Any deployment: each of the two variables set or left empty
AuthInit == InitWith(CfgUsers, CfgPasses)

\* overlapped once w starts a request while another worker is in one
Overlap(w) == overlapped \/ \E v \in Workers \ {w} : pc[v] # "idle"

\* Variant where a POST /fetch refused by the gate is recorded as a failure
RejectRecordsError(w, ep, hdr) ==
    /\ pc[w] = "idle"
    /\ CheckBasicAuth(authUser, authPass, hdr) # "ok"
    /\ obs' = [obs EXCEPT ![w] = [Fresh(ep, hdr) EXCEPT !.status = 303]]
    /\ CACHE' = IF ep = "fetch"
                THEN [CACHE EXCEPT !.err = Some(CheckBasicAuth(authUser, authPass, hdr))]
                ELSE CACHE
    /\ overlapped' = Overlap(w)
    /\ UNCHANGED << authUser, authPass, PREV, pc, loc, lastAttempt, order, natt, lastStarted, lastFinished >>

\* Any endpoint: _check_basic_auth raises the 401 before the handler body
Reject(w, ep, hdr) ==
    /\ pc[w] = "idle"
    /\ CheckBasicAuth(authUser, authPass, hdr) # "ok"
    /\ obs' = [obs EXCEPT ![w] = [Fresh(ep, hdr) EXCEPT !.status = 401,
                                  !.msg = CheckBasicAuth(authUser, authPass, hdr)]]
    /\ overlapped' = Overlap(w)
    /\ UNCHANGED << authUser, authPass, CACHE, PREV, pc, loc, lastAttempt, order, natt, lastStarted, lastFinished >>

Goto(w, from, to) == pc[w] = from /\ pc' = [pc EXCEPT ![w] = to]

fetchFrame == << authUser, authPass, obs, natt, lastStarted, lastFinished, overlapped >>

\* POST /fetch: the gate, then text, code = fetch_nginx_T() or the exception
\* it raises (cap bounds the number of attempts)
FetchCall(w, hdr, cap) ==
    /\ pc[w] = "idle"
    /\ CheckBasicAuth(authUser, authPass, hdr) = "ok"
    /\ natt < cap
    /\ natt' = natt + 1
    /\ lastStarted' = w
    /\ overlapped' = Overlap(w)
    /\ obs' = [obs EXCEPT ![w] = Fresh("fetch", hdr)]
    /\ \/ \E out \in Outputs, rc \in RawCodes :
            /\ pc' = [pc EXCEPT ![w] = "check"]
            /\ loc' = [loc EXCEPT ![w] = [NoLocals EXCEPT !.out = out, !.rawc = rc,
                                          !.text = Truncate(out), !.code = CoerceCode(rc)]]
       \/ \E msg \in ErrMsgs :
            /\ pc' = [pc EXCEPT ![w] = "setErr"]
            /\ loc' = [loc EXCEPT ![w] = [NoLocals EXCEPT !.msg = msg]]
    /\ UNCHANGED << authUser, authPass, CACHE, PREV, lastAttempt, order, lastFinished >>

\* if CACHE["text"]:
FetchCheck(w) ==
    /\ pc[w] = "check"
    /\ pc' = [pc EXCEPT ![w] = IF CACHE.text # << >> THEN "rotText" ELSE "setText"]
    /\ UNCHANGED << CACHE, PREV, loc, lastAttempt, order >>
    /\ UNCHANGED fetchFrame

\* PREV["text"] = CACHE["text"]
FetchRotateText(w) ==
    /\ Goto(w, "rotText", "rotTs")
    /\ PREV' = [PREV EXCEPT !.text = CACHE.text]
    /\ UNCHANGED << CACHE, loc, lastAttempt, order >>
    /\ UNCHANGED fetchFrame

\* PREV["ts"] = CACHE["ts"]
FetchRotateTs(w) ==
    /\ Goto(w, "rotTs", "setText")
    /\ PREV' = [PREV EXCEPT !.ts = CACHE.ts]
    /\ UNCHANGED << CACHE, loc, lastAttempt, order >>
    /\ UNCHANGED fetchFrame

\* CACHE["text"] = text
FetchSetText(w) ==
    /\ Goto(w, "setText", "stamp")
    /\ CACHE' = [CACHE EXCEPT !.text = loc[w].text]
    /\ UNCHANGED << PREV, loc, lastAttempt, order >>
    /\ UNCHANGED fetchFrame

\* datetime.now(timezone.utc), the right-hand side of line 927: a reading of
\* the wall clock, which need not be later than the readings before it
FetchStamp(w) ==
    /\ Goto(w, "stamp", "setTs")
    /\ \E t \in Clock : loc' = [loc EXCEPT ![w].ts = Some(t)]
    /\ UNCHANGED << CACHE, PREV, lastAttempt, order >>
    /\ UNCHANGED fetchFrame

\* CACHE["ts"] = <the reading>: the snapshot <<text, ts>> is made
FetchSetTs(w) ==
    /\ Goto(w, "setTs", "clearErr")
    /\ CACHE' = [CACHE EXCEPT !.ts = loc[w].ts]
    /\ order' = Append(order, << loc[w].text, loc[w].ts >>)
    /\ UNCHANGED << PREV, loc, lastAttempt >>
    /\ UNCHANGED fetchFrame

\* CACHE["err"] = None
FetchClearErr(w) ==
    /\ Goto(w, "clearErr", "setCode")
    /\ CACHE' = [CACHE EXCEPT !.err = NoneV]
    /\ UNCHANGED << PREV, loc, lastAttempt, order >>
    /\ UNCHANGED fetchFrame

\* CACHE["exit_code"] = code; the attempt has succeeded: 303 to /
FetchSetCode(w) ==
    /\ Goto(w, "setCode", "idle")
    /\ CACHE' = [CACHE EXCEPT !.exit_code = Some(loc[w].code)]
    /\ lastAttempt' = "ok"
    /\ lastFinished' = w
    /\ loc' = [loc EXCEPT ![w] = NoLocals]
    /\ obs' = [obs EXCEPT ![w].status = 303]
    /\ UNCHANGED << authUser, authPass, PREV, order, natt, lastStarted, overlapped >>

\* except: CACHE["err"] = str(e)
FetchSetErr(w) ==
    /\ Goto(w, "setErr", "clearCode")
    /\ CACHE' = [CACHE EXCEPT !.err = Some(loc[w].msg)]
    /\ UNCHANGED << PREV, loc, lastAttempt, order >>
    /\ UNCHANGED fetchFrame

\* except: CACHE["exit_code"] = None; the attempt has failed: 303 to /
FetchClearCode(w) ==
    /\ Goto(w, "clearCode", "idle")
    /\ CACHE' = [CACHE EXCEPT !.exit_code = NoneV]
    /\ lastAttempt' = "fail"
    /\ lastFinished' = w
    /\ loc' = [v \in Workers |->
                 IF v = w THEN NoLocals
                 ELSE IF pc[v] # "idle" /\ obs[v].ep = "fetch"
                      THEN [loc[v] EXCEPT !.stale = TRUE] ELSE loc[v]]
    /\ obs' = [obs EXCEPT ![w].status = 303]
    /\ UNCHANGED << authUser, authPass, PREV, order, natt, lastStarted, overlapped >>

\* Frame of the GET handlers' steps after their first
readerFrame == << authUser, authPass, CACHE, PREV, loc, lastAttempt, order,
                  natt, lastStarted, lastFinished, overlapped >>

\* Frame of their first step (which starts the request)
startFrame == << authUser, authPass, CACHE, PREV, loc, lastAttempt, order,
                 natt, lastStarted, lastFinished >>

\* GET /diff?left=<id>: the handler takes no query parameter, so the id the
\* request names is ignored; the gate, then if not PREV["text"]: return 404
DiffCheck(w, hdr) ==
    /\ pc[w] = "idle"
    /\ CheckBasicAuth(authUser, authPass, hdr) = "ok"
    /\ \E left \in Clock :
         IF PREV.text = << >>
         THEN obs' = [obs EXCEPT ![w] = [Fresh("diff", hdr) EXCEPT !.left = left,
                                         !.status = 404, !.msg = NoPrevMsg]]
         ELSE obs' = [obs EXCEPT ![w] = [Fresh("diff", hdr) EXCEPT !.left = left]]
    /\ pc' = [pc EXCEPT ![w] = IF PREV.text = << >> THEN "idle" ELSE "readOld"]
    /\ overlapped' = Overlap(w)
    /\ UNCHANGED startFrame

\* old = PREV["text"].splitlines()
DiffReadOld(w) ==
    /\ Goto(w, "readOld", "readNew")
    /\ obs' = [obs EXCEPT ![w].old = PREV.text]
    /\ UNCHANGED readerFrame

\* new = (CACHE["text"] or "").splitlines()
DiffReadNew(w) ==
    /\ Goto(w, "readNew", "readOldTs")
    /\ obs' = [obs EXCEPT ![w].new = CACHE.text]
    /\ UNCHANGED readerFrame

\* old_ts = PREV["ts"].isoformat() if PREV["ts"] else "previous" (PREV["ts"]
\* never goes from a stamp back to None, so its two reads act as one)
DiffReadOldTs(w) ==
    /\ Goto(w, "readOldTs", "readNewTs")
    /\ obs' = [obs EXCEPT ![w].oldTs = PREV.ts]
    /\ UNCHANGED readerFrame

\* new_ts = CACHE["ts"].isoformat() if CACHE["ts"] else "current"; the diff of
\* what was read is returned with status 200
DiffReadNewTs(w) ==
    /\ Goto(w, "readNewTs", "idle")
    /\ obs' = [obs EXCEPT ![w].newTs = CACHE.ts, ![w].status = 200]
    /\ UNCHANGED readerFrame

\* The body of that 200 answer
DiffResponseBody(o) ==
    DiffBody([text |-> o.old, ts |-> o.oldTs], [text |-> o.new, ts |-> o.newTs])

\* GET /raw: the gate, then if not CACHE["text"]: return 404
RawCheck(w, hdr) ==
    /\ pc[w] = "idle"
    /\ CheckBasicAuth(authUser, authPass, hdr) = "ok"
    /\ IF CACHE.text = << >>
       THEN obs' = [obs EXCEPT ![w] = [Fresh("raw", hdr) EXCEPT !.status = 404,
                                                         !.msg = NoConfigMsg]]
       ELSE obs' = [obs EXCEPT ![w] = Fresh("raw", hdr)]
    /\ pc' = [pc EXCEPT ![w] = IF CACHE.text = << >> THEN "idle" ELSE "rawText"]
    /\ overlapped' = Overlap(w)
    /\ UNCHANGED startFrame

\* return PlainTextResponse(CACHE["text"])
RawReadText(w) ==
    /\ Goto(w, "rawText", "idle")
    /\ obs' = [obs EXCEPT ![w].text = CACHE.text, ![w].status = 200]
    /\ UNCHANGED readerFrame

\* GET /download: the gate, then if not CACHE["text"]: return 404
DownloadCheck(w, hdr) ==
    /\ pc[w] = "idle"
    /\ CheckBasicAuth(authUser, authPass, hdr) = "ok"
    /\ IF CACHE.text = << >>
       THEN obs' = [obs EXCEPT ![w] = [Fresh("download", hdr) EXCEPT !.status = 404,
                                                              !.msg = NoConfigMsg]]
       ELSE obs' = [obs EXCEPT ![w] = Fresh("download", hdr)]
    /\ pc' = [pc EXCEPT ![w] = IF CACHE.text = << >> THEN "idle" ELSE "dlTs"]
    /\ overlapped' = Overlap(w)
    /\ UNCHANGED startFrame

\* ts = CACHE["ts"] or datetime.now(timezone.utc): when no stamp is stored,
\* a reading of the wall clock (the file name is built from it)
DownloadReadTs(w) ==
    /\ pc[w] = "dlTs"
    /\ pc' = [pc EXCEPT ![w] = "dlText"]
    /\ IF CACHE.ts = NoneV
       THEN \E t \in Clock : obs' = [obs EXCEPT ![w].ts = Some(t)]
       ELSE obs' = [obs EXCEPT ![w].ts = CACHE.ts]
    /\ UNCHANGED << authUser, authPass, CACHE, PREV, loc, lastAttempt, order,
                    natt, lastStarted, lastFinished, overlapped >>

\* Response(content=CACHE["text"], ...)
DownloadReadText(w) ==
    /\ Goto(w, "dlText", "idle")
    /\ obs' = [obs EXCEPT ![w].text = CACHE.text, ![w].status = 200]
    /\ UNCHANGED readerFrame

\* GET /: the gate, then ts_iso = CACHE["ts"].isoformat() if CACHE["ts"] else ""
\* (CACHE["ts"] never goes from a stamp back to None, so its two reads act as
\* one)
IndexReadTsIso(w, hdr) ==
    /\ pc[w] = "idle"
    /\ CheckBasicAuth(authUser, authPass, hdr) = "ok"
    /\ pc' = [pc EXCEPT ![w] = "ixTsHuman"]
    /\ obs' = [obs EXCEPT ![w] = [Fresh("index", hdr) EXCEPT !.ts = CACHE.ts]]
    /\ overlapped' = Overlap(w)
    /\ UNCHANGED startFrame

\* ts_human = CACHE["ts"].strftime(...) if CACHE["ts"] else "—"
IndexReadTsHuman(w) ==
    /\ Goto(w, "ixTsHuman", "ixErr")
    /\ obs' = [obs EXCEPT ![w].ts2 = CACHE.ts]
    /\ UNCHANGED readerFrame

\* err = CACHE["err"] or ""
IndexReadErr(w) ==
    /\ Goto(w, "ixErr", "ixCode")
    /\ obs' = [obs EXCEPT ![w].err = CACHE.err]
    /\ UNCHANGED readerFrame

\* exit_code = CACHE["exit_code"]
IndexReadCode(w) ==
    /\ Goto(w, "ixCode", "ixHas")
    /\ obs' = [obs EXCEPT ![w].code = CACHE.exit_code]
    /\ UNCHANGED readerFrame

\* has = bool(CACHE["text"])
IndexReadHas(w) ==
    /\ Goto(w, "ixHas", "ixText")
    /\ obs' = [obs EXCEPT ![w].has = (CACHE.text # << >>)]
    /\ UNCHANGED readerFrame

\* config_text = CACHE["text"] if has else ""; the page is rendered
IndexReadText(w) ==
    /\ Goto(w, "ixText", "idle")
    /\ obs' = [obs EXCEPT ![w].text = IF obs[w].has THEN CACHE.text ELSE << >>,
                          ![w].status = 200]
    /\ UNCHANGED readerFrame

\* The steps of the GET /diff handler
DiffSteps(w) ==
    \/ \E hdr \in Headers : DiffCheck(w, hdr)
    \/ DiffReadOld(w)
    \/ DiffReadNew(w)
    \/ DiffReadOldTs(w)
    \/ DiffReadNewTs(w)

\* Worker w serving a POST /fetch, of at most cap attempts in all
FetchReq(w, cap) ==
    \/ \E hdr \in Headers : Reject(w, "fetch", hdr)
    \/ \E hdr \in Headers : FetchCall(w, hdr, cap)
    \/ FetchCheck(w)
    \/ FetchRotateText(w)
    \/ FetchRotateTs(w)
    \/ FetchSetText(w)
    \/ FetchStamp(w)
    \/ FetchSetTs(w)
    \/ FetchClearErr(w)
    \/ FetchSetCode(w)
    \/ FetchSetErr(w)
    \/ FetchClearCode(w)

\* Worker w serving a GET (/diff, /raw, /download or /)
ReadReq(w) ==
    \/ \E ep \in Endpoints \ {"fetch"}, hdr \in Headers : Reject(w, ep, hdr)
    \/ DiffSteps(w)
    \/ \E hdr \in Headers : RawCheck(w, hdr)
    \/ RawReadText(w)
    \/ \E hdr \in Headers : DownloadCheck(w, hdr)
    \/ DownloadReadTs(w)
    \/ DownloadReadText(w)
    \/ \E hdr \in Headers : IndexReadTsIso(w, hdr)
    \/ IndexReadTsHuman(w)
    \/ IndexReadErr(w)
    \/ IndexReadCode(w)
    \/ IndexReadHas(w)
    \/ IndexReadText(w)

\* Each worker of the pool serves any request
Next == \E w \in Workers : FetchReq(w, MaxAttempts) \/ ReadReq(w)

Spec == Init /\ [][Next]_vars

\* Clients that only send POST /fetch, two of them at a time
FetchNext == \E w \in Workers : FetchReq(w, MaxAttempts)

FetchSpec == Init /\ [][FetchNext]_vars

\* One client sending POST /fetch while another sends GETs
MixNext == FetchReq("w1", MixAttempts) \/ ReadReq("w2")

MixSpec == Init /\ [][MixNext]_vars

\* Any deployment's credentials, one client sending requests of every kind
\* one after another (_check_basic_auth reads only BASIC_USER / BASIC_PASS,
\* which never change, so overlapping requests get the same gate answers)
AuthNext == FetchReq("w1", MaxAttempts) \/ ReadReq("w1")

AuthSpec == AuthInit /\ [][AuthNext]_vars

\* ------------------------------------------------- diffs of longer texts
\* Three-line texts l1 "\n" l2 "\n" l3 that two captures may have returned
\* (short enough to stay below the default MAX_CHARS of 5000000).
DiffLines1 == {"a", "b"}
DiffLines2 == {"b", "x"}
DiffLines3 == {"c", "a"}
DiffTexts == {<< l1, "\n", l2, "\n", l3 >> : l1 \in DiffLines1, l2 \in DiffLines2, l3 \in DiffLines3}

\* State after two successful POST /fetch that captured t1 at time 1, then
\* t2 at time 2
DiffInit ==
    \E t1 \in DiffTexts, t2 \in DiffTexts :
      /\ authUser = "u"
      /\ authPass = "p"
      /\ CACHE = [text |-> t2, ts |-> Some(2), err |-> NoneV, exit_code |-> Some(0)]
      /\ PREV = [text |-> t1, ts |-> Some(1)]
      /\ pc = [w \in Workers |-> "idle"]
      /\ loc = [w \in Workers |-> NoLocals]
      /\ obs = [w \in Workers |-> NoObs]
      /\ lastAttempt = "ok"
      /\ order = << << t1, Some(1) >>, << t2, Some(2) >> >>
      /\ natt = 2
      /\ lastStarted = "w1"
      /\ lastFinished = "w1"
      /\ overlapped = FALSE

\* GET /diff requests (and only those) against those two snapshots
DiffNext ==
    \E w \in Workers :
      \/ \E hdr \in Headers : Reject(w, "diff", hdr)
      \/ DiffSteps(w)

DiffSpec == DiffInit /\ [][DiffNext]_vars

\* =================================================================== claims

\* C1: after any sequence of captures served one at a time, CACHE holds the
\* most recent recorded snapshot and PREV the one recorded just before it
\* (nothing when only one was recorded), also when a capture returned empty
\* text.
C1_RetainedAreMostRecent ==
    ((\A w \in Workers : pc[w] = "idle") /\ ~overlapped /\ order # << >>) =>
      /\ << CACHE.text, CACHE.ts >> = order[Len(order)]
      /\ Len(order) >= 2 => << PREV.text, PREV.ts >> = order[Len(order) - 1]
      /\ Len(order) = 1 => PREV = [text |-> << >>, ts |-> NoneV]

\* C2: the steps of a failed capture leave the current text,
\* timestamp and exit code and the previous snapshot unchanged.
C2_FailedFetchPreservesAll ==
    [][\A w \in Workers :
         (pc[w] \in {"setErr", "clearCode"} /\ pc'[w] # pc[w]) =>
           /\ CACHE'.text = CACHE.text
           /\ CACHE'.ts = CACHE.ts
           /\ CACHE'.exit_code = CACHE.exit_code
           /\ PREV' = PREV]_vars

\* C3: CACHE["err"] is set exactly when the most recent capture attempt
\* failed, whenever no POST /fetch is part-way through and the attempt that
\* began last is also the one that ended last.
C3_LastErrorTracksLastAttempt ==
    ((\A w \in Workers : pc[w] = "idle")
     /\ lastStarted = lastFinished)
      => ((CACHE.err # NoneV) <=> (lastAttempt = "fail"))

\* C4: with requests served one at a time, /diff answers the
\* insufficient-history 404 exactly when fewer than two snapshots have been
\* recorded.
C4_DiffRefusedIffFewerThanTwo ==
    [][\A w \in Workers :
         LET r == obs'[w] IN
         (r # obs[w] /\ r.ep = "diff" /\ r.status \notin {0, 401} /\ ~overlapped') =>
           ((r.status = 404) <=> (Len(order') < 2))]_vars

\* C5: a /diff that read equal previous and current texts
\* returns an empty diff.
C5_DiffOfEqualIsEmpty ==
    \A w \in Workers :
      (obs[w].ep = "diff" /\ obs[w].status = 200 /\ obs[w].old = obs[w].new) =>
        DiffResponseBody(obs[w]) = << >>

\* C6: the text a capture stores is, for output longer than MAX_CHARS, its
\* first MAX_CHARS characters followed by the marker (length MAX_CHARS plus
\* the marker's length); shorter output is stored unchanged.
C6_Truncation ==
    [][\A w \in Workers :
         (pc[w] = "setText" /\ pc'[w] # "setText") =>
           LET out == loc[w].out
               s == CACHE'.text
           IN /\ Len(out) > MAX_CHARS =>
                   /\ Len(s) = MAX_CHARS + Len(TruncMarker)
                   /\ SubSeq(s, 1, MAX_CHARS) = SubSeq(out, 1, MAX_CHARS)
                   /\ SubSeq(s, MAX_CHARS + 1, Len(s)) = TruncMarker
              /\ Len(out) <= MAX_CHARS => s = out]_vars

C6_Witness == \E w \in Workers : pc[w] = "stamp" /\ Len(loc[w].out) > MAX_CHARS

\* C7: with no credentials configured every request passes the gate; with
\* credentials configured (either variable set) a request without Basic
\* header gets "Auth required", a wrong or undecodable one "Invalid auth",
\* and exactly the matching pair passes.
C7_AuthGate ==
    \A w \in Workers :
      obs[w].status # 0 =>
        LET configured == authUser # "" \/ authPass # ""
            h == obs[w].hdr
            matching == h.kind = "basic" /\ h.user = authUser /\ h.pwd = authPass
        IN /\ ~configured => obs[w].status # 401
           /\ configured /\ h.kind = "none" =>
                 obs[w].status = 401 /\ obs[w].msg = "Auth required"
           /\ configured /\ h.kind # "none" /\ ~matching =>
                 obs[w].status = 401 /\ obs[w].msg = "Invalid auth"
           /\ configured /\ matching => obs[w].status # 401

\* C8: no reader sees a partially made snapshot: the current and previous
\* texts GET /diff read, each with the timestamp it read for that side, and
\* the text and timestamp GET / and GET /download read, are snapshots that
\* were recorded; GET / reads one timestamp; /raw and /download never answer
\* 200 with an empty text.
C8_ReaderSeesWholeSnapshots ==
    \A w \in Workers :
      LET o == obs[w] IN
      o.status = 200 =>
        /\ o.ep = "diff" =>
             /\ \E k \in 1 .. Len(order) : order[k] = << o.new, o.newTs >>
             /\ \E k \in 1 .. Len(order) : order[k] = << o.old, o.oldTs >>
        /\ o.ep = "index" /\ o.has =>
             \E k \in 1 .. Len(order) : order[k] = << o.text, o.ts >>
        /\ o.ep = "download" =>
             \E k \in 1 .. Len(order) : order[k] = << o.text, o.ts >>
        /\ o.ep = "index" => o.ts = o.ts2
        /\ o.ep \in {"raw", "download"} => o.text # << >>

\* C9: once overlapping POST /fetch (each capturing non-empty text) have
\* completed, CACHE holds the snapshot recorded last and PREV the one
\* recorded immediately before it.
C9_OverlapKeepsOrder ==
    ((\A w \in Workers : pc[w] = "idle") /\ Len(order) >= 2
     /\ \A k \in 1 .. Len(order) : order[k][1] # << >>) =>
      /\ << CACHE.text, CACHE.ts >> = order[Len(order)]
      /\ << PREV.text, PREV.ts >> = order[Len(order) - 1]
      /\ << PREV.text, PREV.ts >> # << CACHE.text, CACHE.ts >>

\* C10: the stamps that label the snapshots (the only per-snapshot label:
\* /diff's headers, /download's file name) strictly increase in recording
\* order, so none is reused; and a /diff naming a snapshot id that is not
\* retained (evicted or never assigned) answers not-found (404).
C10_IdsIncreaseLookupNotFound ==
    [][/\ \A i, j \in 1 .. Len(order') : i < j => order'[i][2][1] < order'[j][2][1]
       /\ \A w \in Workers :
            LET r == obs'[w] IN
            (r # obs[w] /\ r.ep = "diff" /\ r.status \notin {0, 401}
             /\ Some(r.left) \notin {CACHE'.ts, PREV'.ts}) => r.status = 404]_vars

\* C11: no step of a request rejected by the auth gate (POST /fetch
\* included) or of a GET changes CACHE or PREV.
C11_RejectionsAndReadsKeepState ==
    [][\A w \in Workers :
         ((pc'[w] # pc[w] \/ obs'[w] # obs[w])
          /\ (obs'[w].ep \in {"diff", "raw", "download", "index"}
              \/ CheckBasicAuth(authUser, authPass, obs'[w].hdr) # "ok")) =>
           (CACHE' = CACHE /\ PREV' = PREV)]_vars

C11_Witness ==
    \E w \in Workers : obs[w].ep = "fetch" /\ obs[w].status = 401 /\ CACHE.err # NoneV

\* C12: a capture whose exec result has no (or a None) exit code gets code
\* 0, and GET / shows a snapshot without exit code only when the capture
\* attempt that ended last failed.
C12_ExitCodeCoercion ==
    [][/\ \A w \in Workers :
            (pc'[w] = "check" /\ loc'[w].rawc = NoneV) => loc'[w].code = 0
       /\ \A w \in Workers :
            LET r == obs'[w] IN
            (r # obs[w] /\ r.ep = "index" /\ r.status = 200 /\ r.has
             /\ r.code = NoneV) => lastAttempt' = "fail"]_vars

\* C13: with requests served one at a time, /raw and /download return the
\* current snapshot's full text whenever a snapshot has been recorded, and
\* the "none yet" 404 only when none has.
C13_RawReturnsCurrent ==
    [][\A w \in Workers :
         LET r == obs'[w] IN
         (r # obs[w] /\ r.ep \in {"raw", "download"} /\ r.status \notin {0, 401}
          /\ ~overlapped') =>
           /\ Len(order') >= 1 => (r.status = 200 /\ r.text = CACHE'.text)
           /\ r.status = 404 => Len(order') = 0]_vars

\* C14: the diff of two three-line snapshots that differ only in their middle
\* line is one hunk "@@ -1,3 +1,3 @@" holding the first line as context, the
\* old middle line removed, the new one added, and the last line as context
\* (e.g. "a\nb\nc" then "a\nx\nc").
C14_MiddleLineDiff ==
    \A w \in Workers :
      LET o == obs[w]
          a == Splitlines(o.old)
          b == Splitlines(o.new)
      IN (o.ep = "diff" /\ o.status = 200 /\ Len(a) = 3 /\ Len(b) = 3
          /\ a[1] = b[1] /\ a[3] = b[3] /\ a[2] # b[2]) =>
           DiffResponseBody(o) =
             JoinNl(<< << "---", FileLabel("prev", o.oldTs, "previous") >>,
                       << "+++", FileLabel("curr", o.newTs, "current") >>,
                       << "@@", << 1, 3 >>, << 1, 3 >> >>,
                       << " ", a[1] >>, << "-", a[2] >>, << "+", b[2] >>,
                       << " ", a[3] >> >>) \o << "\n" >>

C14_Witness ==
    \E w \in Workers :
      /\ obs[w].ep = "diff" /\ obs[w].status = 200
      /\ obs[w].old = << "a", "\n", "b", "\n", "c" >>
      /\ obs[w].new = << "a", "\n", "x", "\n", "c" >>

\* C15: with requests handled one at a time, between requests, whenever PREV
\* holds a text a current snapshot exists and PREV's timestamp is not later
\* than CACHE's, so /diff compares the older (-) with the newer (+) snapshot.
C15_PrevOlderThanCurrent ==
    ((\A w \in Workers : pc[w] = "idle") /\ ~overlapped /\ PREV.text # << >>) =>
      /\ CACHE.ts # NoneV
      /\ PREV.ts # NoneV
      /\ PREV.ts[1] <= CACHE.ts[1]

\* C16: a capture is made only by a POST /fetch that starts, and once a
\* failed POST /fetch has returned, Last-error is cleared only by a POST
\* /fetch sent after it returned: nothing retries or clears a failed
\* capture on its own.
C16_NoAutomaticRetry ==
    [][/\ natt' # natt =>
            \E w \in Workers : pc[w] = "idle" /\ pc'[w] # "idle" /\ obs'[w].ep = "fetch"
       /\ (lastAttempt = "fail" /\ CACHE.err # NoneV /\ CACHE'.err = NoneV) =>
            \E w \in Workers : pc[w] # "idle" /\ obs[w].ep = "fetch" /\ ~loc[w].stale]_vars
====
